---- MODULE Spec2Model ----
(***************************************************************************)
(* Model of the NIL block-linear tiled copy (src/nouveau/nil/copy.rs) and  *)
(* of the rusticl VM heap wrapper (mesa/util/vm.rs).                        *)
(*                                                                         *)
(* The copy traversal never looks at the bytes it moves, so a buffer is    *)
(* modelled as a function from addresses to symbolic byte labels: every    *)
(* byte of every buffer starts with a label of its own, and a property     *)
(* that holds for these labels holds for every content.                    *)
(*                                                                         *)
(* usize/u32 arithmetic written with plain + - * in the source cannot      *)
(* overflow within the bounds used here and is modelled with integers;     *)
(* wrapping_add / wrapping_sub are modelled modulo 2^USIZE_BITS.           *)
(***************************************************************************)
EXTENDS Integers, Sequences, FiniteSets, TLC

VARIABLES
    \* ---- tiled copy (copy.rs) ----
    pc,                    \* "init", "l2t" (after linear->tiled), "t2l" (after tiled->linear)
    tiling,                \* Tiling descriptor
    level_extent_B,        \* Extent4D<Bytes> of the level
    offset_B, extent_B,    \* the rectangle R
    swizzle,               \* CopySwizzle argument
    linear_row_stride_B, linear_plane_stride_B,
    linear_src, linear_dst, tiled_ptr,   \* the raw pointers handed to the entry points
    src_mem,               \* linear source buffer L   (address -> label)
    tiled_mem,             \* tiled buffer T
    dst_mem,               \* linear destination buffer L'
    wild,                  \* TRUE once a primitive touched an address outside the buffers
    copy16b,               \* Copy16B implementation instantiated by the last entry point
    x_divisor,             \* x_divisor of the LinearPointer built by the last entry point
    calls,                 \* the Copy16B::copy calls of the last entry point, in order
    \* ---- one GOB (copy_gob / copy_whole_gob) ----
    gpc, gstart, gend, gdir, glin, gtil, gwild, gvisit, gcalls,
    \* ---- partitioner (for_each_extent4d) ----
    ppc, pstart, pend, pchunk, pout,
    \* ---- VM heap (vm.rs) ----
    heap_start, heap_size, holes, lock, tpc, treq, tret, live,
    \* ---- one Copy16B::copy call ----
    cpc, cprim, cbytes, ctiled, clinear, cmem

copyVars == <<pc, tiling, level_extent_B, offset_B, extent_B, swizzle,
              linear_row_stride_B, linear_plane_stride_B, linear_src,
              linear_dst, tiled_ptr, src_mem, tiled_mem, dst_mem, wild,
              copy16b, x_divisor, calls>>
gobVars == <<gpc, gstart, gend, gdir, glin, gtil, gwild, gvisit, gcalls>>
partVars == <<ppc, pstart, pend, pchunk, pout>>
vmVars == <<heap_start, heap_size, holes, lock, tpc, treq, tret, live>>
primVars == <<cpc, cprim, cbytes, ctiled, clinear, cmem>>
vars == <<copyVars, gobVars, partVars, vmVars, primVars>>

----------------------------------------------------------------------------
(* Bounds of the model *)

USIZE_BITS == 15      \* width of the modelled address space
MaxXLog2 == 1         \* largest Tiling.x_log2 explored
MaxYLog2 == 1         \* largest Tiling.y_log2 explored
MaxZLog2 == 1         \* largest Tiling.z_log2 explored
MaxLevelGobs == 4     \* largest level, in GOBs of the tile-aligned extent

----------------------------------------------------------------------------
(* Program constants *)

SECTOR_WIDTH_B == 16
GOB_WIDTH_B == 64
GOB_DEPTH == 1

----------------------------------------------------------------------------
(* Integer helpers *)

Min(a, b) == IF a < b THEN a ELSE b
Max(a, b) == IF a > b THEN a ELSE b

RECURSIVE Pow2(_)
Pow2(n) == IF n = 0 THEN 1 ELSE 2 * Pow2(n - 1)

USIZE == Pow2(USIZE_BITS)

\* a & !m on unsigned integers, bit by bit
RECURSIVE AndNot(_, _)
AndNot(a, m) ==
    IF a = 0 THEN 0
    ELSE (IF m % 2 = 1 THEN 0 ELSE a % 2) + 2 * AndNot(a \div 2, m \div 2)

\* a & m on unsigned integers, bit by bit
RECURSIVE And(_, _)
And(a, m) ==
    IF a = 0 \/ m = 0 THEN 0
    ELSE (IF m % 2 = 1 THEN a % 2 ELSE 0) + 2 * And(a \div 2, m \div 2)

is_power_of_two(n) == n > 0 /\ And(n, n - 1) = 0

RECURSIVE ilog2(_)
ilog2(n) == IF n <= 1 THEN 0 ELSE 1 + ilog2(n \div 2)

wrapping_add(a, b) == (a + b) % USIZE
wrapping_sub(a, b) == (a - b) % USIZE

RECURSIVE Flatten(_)
Flatten(ss) == IF ss = <<>> THEN <<>> ELSE Head(ss) \o Flatten(Tail(ss))

----------------------------------------------------------------------------
(* Extent4D / Offset4D / Tiling *)

Offset4D(x, y, z, a) == [x |-> x, y |-> y, z |-> z, a |-> a]
Extent4D(w, h, d, a) == [width |-> w, height |-> h, depth |-> d, array_len |-> a]

\* Offset4D + Extent4D
OffsetPlus(o, e) ==
    Offset4D(o.x + e.width, o.y + e.height, o.z + e.depth, o.a + e.array_len)

\* Offset4D::is_aligned_to
is_aligned_to(o, e) ==
    /\ o.x % e.width = 0
    /\ o.y % e.height = 0
    /\ o.z % e.depth = 0
    /\ o.a % e.array_len = 0

\* Extent4D::align: each dimension rounded up to a multiple of the alignment
AlignUp(v, a) == ((v + a - 1) \div a) * a
\* Extent4D::align that leaves the extent as it is
Extent4D_align_none(e, al) == e

Extent4D_align(e, al) ==
    Extent4D(AlignUp(e.width, al.width), AlignUp(e.height, al.height),
             AlignUp(e.depth, al.depth), AlignUp(e.array_len, al.array_len))

gob_height(gob_height_is_8) == IF gob_height_is_8 THEN 8 ELSE 4

\* Tiling::gob_extent_B
Tiling_gob_extent_B(t) ==
    Extent4D(GOB_WIDTH_B, gob_height(t.gob_height_is_8), GOB_DEPTH, 1)

\* Tiling::extent_B
Tiling_extent_B(t) ==
    Extent4D(GOB_WIDTH_B * Pow2(t.x_log2),
             gob_height(t.gob_height_is_8) * Pow2(t.y_log2),
             GOB_DEPTH * Pow2(t.z_log2), 1)

----------------------------------------------------------------------------
(* Rectangle partitioner *)

Range(s, e) == [start |-> s, end |-> e]


\* aligned_range with the end rounded down instead of up
aligned_range_round_down(start, end, align) ==
    LET align_1 == align - 1
    IN  Range(AndNot(start, align_1), AndNot(end, align_1))

aligned_range(start, end, align) ==
    LET align_1 == align - 1
    IN  Range(AndNot(start, align_1), AndNot(end + align_1, align_1))

chunk_range(whole, chunk_start, chunk_len) ==
    LET start == IF chunk_start < whole.start
                 THEN whole.start - chunk_start
                 ELSE 0
        end == Min(whole.end - chunk_start, chunk_len)
    IN  Range(start, end)

\* Range<u32>::step_by: start, start+step, ... below end
step_by(r, step) ==
    IF r.start >= r.end THEN <<>>
    ELSE [i \in 1..((r.end - r.start + step - 1) \div step) |->
              r.start + (i - 1) * step]

\* The calls f(chunk_start, start, end) made by for_each_extent4d, in order.
for_each_extent4d(start, end, chunk) ==
    LET xs == step_by(aligned_range(start.x, end.x, chunk.width), chunk.width)
        ys == step_by(aligned_range(start.y, end.y, chunk.height), chunk.height)
        zs == step_by(aligned_range(start.z, end.z, chunk.depth), chunk.depth)
        nx == Len(xs)
        ny == Len(ys)
        nz == Len(zs)
        item(z, y, x) ==
            LET chunk_z == chunk_range(Range(start.z, end.z), z, chunk.depth)
                chunk_y == chunk_range(Range(start.y, end.y), y, chunk.height)
                chunk_x == chunk_range(Range(start.x, end.x), x, chunk.width)
            IN  [chunk_start |-> Offset4D(x, y, z, start.a),
                 start |-> Offset4D(chunk_x.start, chunk_y.start,
                                    chunk_z.start, start.a),
                 end |-> Offset4D(chunk_x.end, chunk_y.end, chunk_z.end, end.a)]
    IN  [i \in 1..(nz * ny * nx) |->
            item(zs[((i - 1) \div (nx * ny)) + 1],
                 ys[(((i - 1) \div nx) % ny) + 1],
                 xs[((i - 1) % nx) + 1])]

\* The calls f(chunk_start) made by for_each_extent4d_aligned, in order.
for_each_extent4d_aligned(start, end, chunk) ==
    LET xs == step_by(Range(start.x, end.x), chunk.width)
        ys == step_by(Range(start.y, end.y), chunk.height)
        zs == step_by(Range(start.z, end.z), chunk.depth)
        nx == Len(xs)
        ny == Len(ys)
        nz == Len(zs)
    IN  [i \in 1..(nz * ny * nx) |->
            Offset4D(xs[((i - 1) % nx) + 1],
                     ys[(((i - 1) \div nx) % ny) + 1],
                     zs[((i - 1) \div (nx * ny)) + 1],
                     start.a)]

----------------------------------------------------------------------------
(* Address cursors *)


\* BlockPointer::new with the row multiplier taken from the block width
BlockPointer_new_block_width(pointer, bl_extent, extent) ==
    [pointer |-> pointer,
     x_mul |-> bl_extent.height * bl_extent.depth,
     y_mul |-> bl_extent.width * bl_extent.depth,
     z_mul |-> extent.width * extent.height,
     bl_extent |-> bl_extent]


\* BlockPointer::new with the plane multiplier taken from the block height
BlockPointer_new_z_block_height(pointer, bl_extent, extent) ==
    [pointer |-> pointer,
     x_mul |-> bl_extent.height * bl_extent.depth,
     y_mul |-> extent.width * bl_extent.depth,
     z_mul |-> extent.width * bl_extent.height,
     bl_extent |-> bl_extent]

BlockPointer_new(pointer, bl_extent, extent) ==
    [pointer |-> pointer,
     x_mul |-> bl_extent.height * bl_extent.depth,
     y_mul |-> extent.width * bl_extent.depth,
     z_mul |-> extent.width * extent.height,
     bl_extent |-> bl_extent]


\* BlockPointer::at with the x and y multipliers exchanged
BlockPointer_at_swapped(self, offset) ==
    self.pointer + offset.z * self.z_mul + offset.y * self.x_mul
                 + offset.x * self.y_mul

BlockPointer_at(self, offset) ==
    self.pointer + offset.z * self.z_mul + offset.y * self.y_mul
                 + offset.x * self.x_mul

LinearPointer_new(pointer, x_div, row_stride_B, plane_stride_B) ==
    [pointer |-> pointer,
     x_shift |-> ilog2(x_div),
     row_stride_B |-> row_stride_B,
     plane_stride_B |-> plane_stride_B]

LinearPointer_x_divisor(self) == Pow2(self.x_shift)

\* reverse with subtractions that stop at zero instead of wrapping
LinearPointer_reverse_saturating(self, offset) ==
    [self EXCEPT !.pointer =
        Max(0, self.pointer - offset.z * self.plane_stride_B
                 - offset.y * self.row_stride_B
                 - offset.x \div Pow2(self.x_shift))]

LinearPointer_reverse(self, offset) ==
    [self EXCEPT !.pointer =
        wrapping_sub(
            wrapping_sub(
                wrapping_sub(self.pointer, offset.z * self.plane_stride_B),
                offset.y * self.row_stride_B),
            offset.x \div Pow2(self.x_shift))]

LinearPointer_at(self, offset) ==
    wrapping_add(
        wrapping_add(
            wrapping_add(self.pointer, offset.z * self.plane_stride_B),
            offset.y * self.row_stride_B),
        offset.x \div Pow2(self.x_shift))

LinearPointer_offset(self, offset) ==
    [self EXCEPT !.pointer = LinearPointer_at(self, offset)]

----------------------------------------------------------------------------
(* GOB walker *)


\* gob2d_for_each_16b with one row number repeated
gob2d_for_each_16b_repeated_row ==
    Flatten([k \in 1..2 |->
        LET i == k - 1
            f(offset, x, y) == [offset |-> offset, x |-> x, y |-> y]
        IN  << f(i * 256 + 0, i * 32 + 0, 0),
               f(i * 256 + 16, i * 32 + 0, 1),
               f(i * 256 + 32, i * 32 + 0, 2),
               f(i * 256 + 48, i * 32 + 0, 3),

               f(i * 256 + 64, i * 32 + 16, 0),
               f(i * 256 + 80, i * 32 + 16, 1),
               f(i * 256 + 96, i * 32 + 16, 2),
               f(i * 256 + 112, i * 32 + 16, 3),

               f(i * 256 + 128, i * 32 + 0, 4),
               f(i * 256 + 144, i * 32 + 0, 5),
               f(i * 256 + 160, i * 32 + 0, 6),
               f(i * 256 + 176, i * 32 + 0, 7),

               f(i * 256 + 192, i * 32 + 16, 4),
               f(i * 256 + 208, i * 32 + 16, 5),
               f(i * 256 + 224, i * 32 + 16, 5),
               f(i * 256 + 240, i * 32 + 16, 7) >>])

\* The calls f(offset, x, y) made by gob2d_for_each_16b, in order.
gob2d_for_each_16b ==
    Flatten([k \in 1..2 |->
        LET i == k - 1
            f(offset, x, y) == [offset |-> offset, x |-> x, y |-> y]
        IN  << f(i * 256 + 0, i * 32 + 0, 0),
               f(i * 256 + 16, i * 32 + 0, 1),
               f(i * 256 + 32, i * 32 + 0, 2),
               f(i * 256 + 48, i * 32 + 0, 3),

               f(i * 256 + 64, i * 32 + 16, 0),
               f(i * 256 + 80, i * 32 + 16, 1),
               f(i * 256 + 96, i * 32 + 16, 2),
               f(i * 256 + 112, i * 32 + 16, 3),

               f(i * 256 + 128, i * 32 + 0, 4),
               f(i * 256 + 144, i * 32 + 0, 5),
               f(i * 256 + 160, i * 32 + 0, 6),
               f(i * 256 + 176, i * 32 + 0, 7),

               f(i * 256 + 192, i * 32 + 16, 4),
               f(i * 256 + 208, i * 32 + 16, 5),
               f(i * 256 + 224, i * 32 + 16, 6),
               f(i * 256 + 240, i * 32 + 16, 7) >>])

\* CopyGOB2D::GOB_EXTENT_B
GOB_EXTENT_B == Extent4D(64, 8, 1, 1)

\* One call of the Copy16B primitive: via is "copy_16b" or "copy".
Copy16BCall(via, tiled, linear, bytes) ==
    [via |-> via, tiled |-> tiled, linear |-> linear, bytes |-> bytes]

\* Copy16B::copy_16b (default method): copy(tiled, linear, 16)
copy_16b(tiled, linear) == Copy16BCall("copy_16b", tiled, linear, 16)


\* CopyGOB2D::copy_gob with the clipped start applied to the tiled side only
CopyGOB2D_copy_gob_linear_unshifted(tiled, linear, start, end) ==
    Flatten([k \in 1..Len(gob2d_for_each_16b) |->
        LET e == gob2d_for_each_16b[k]
            x == e.x
            tiled_l == tiled + e.offset
            linear_l == LinearPointer_at(linear, Offset4D(x, e.y, 0, 0))
        IN  IF x >= start.x /\ x + 16 <= end.x
            THEN << copy_16b(tiled_l, linear_l) >>
            ELSE IF x + 16 >= start.x /\ x < end.x
            THEN LET s == Max(x, start.x) - x
                     n == Min(end.x - x, 16)
                 IN  << Copy16BCall("copy", tiled_l + s, linear_l, n - s) >>
            ELSE << >>])

\* CopyGOB2D::copy_gob: the primitive calls it makes, in order.
CopyGOB2D_copy_gob(tiled, linear, start, end) ==
    Flatten([k \in 1..Len(gob2d_for_each_16b) |->
        LET e == gob2d_for_each_16b[k]
            x == e.x
            tiled_l == tiled + e.offset
            linear_l == LinearPointer_at(linear, Offset4D(x, e.y, 0, 0))
        IN  IF x >= start.x /\ x + 16 <= end.x
            THEN << copy_16b(tiled_l, linear_l) >>
            ELSE IF x + 16 >= start.x /\ x < end.x
            THEN LET s == Max(x, start.x) - x
                     n == Min(end.x - x, 16)
                 IN  << Copy16BCall("copy", tiled_l + s, linear_l + s, n - s) >>
            ELSE << >>])

\* copy_whole_gob that stops after the first half of the table
CopyGOB2D_copy_whole_gob_first_half(tiled, linear) ==
    [k \in 1..(Len(gob2d_for_each_16b) \div 2) |->
        LET e == gob2d_for_each_16b[k]
        IN  copy_16b(tiled + e.offset,
                     LinearPointer_at(linear, Offset4D(e.x, e.y, 0, 0)))]

\* CopyGOB2D::copy_whole_gob: the primitive calls it makes, in order.
CopyGOB2D_copy_whole_gob(tiled, linear) ==
    [k \in 1..Len(gob2d_for_each_16b) |->
        LET e == gob2d_for_each_16b[k]
        IN  copy_16b(tiled + e.offset,
                     LinearPointer_at(linear, Offset4D(e.x, e.y, 0, 0)))]

----------------------------------------------------------------------------
(* Tile walker and top-level traversal *)

\* One call of a CopyGOB method made by copy_tile: fn is "copy_whole_gob" or
\* "copy_gob", gob the GOB origin inside the tile.
CopyGOBCall(fn, gob, tiled, linear, start, end) ==
    [fn |-> fn, gob |-> gob, tiled |-> tiled, linear |-> linear,
     start |-> start, end |-> end]

\* copy_tile taking the clipped path for every GOB
copy_tile_gobs_always_clipped(tiling_, tile_ptr_, linear, start, end) ==
    LET tile_extent_B == Tiling_extent_B(tiling_)
        tile_ptr == BlockPointer_new(tile_ptr_, GOB_EXTENT_B, tile_extent_B)
        gobs == for_each_extent4d(start, end, GOB_EXTENT_B)
    IN  [k \in 1..Len(gobs) |->
            CopyGOBCall("copy_gob", gobs[k].chunk_start,
                        BlockPointer_at(tile_ptr, gobs[k].chunk_start),
                        LinearPointer_offset(linear, gobs[k].chunk_start),
                        gobs[k].start, gobs[k].end)]

\* copy_tile: the CopyGOB calls it makes, in order.
copy_tile_gobs(tiling_, tile_ptr_, linear, start, end) ==
    LET tile_extent_B == Tiling_extent_B(tiling_)
        tile_ptr == BlockPointer_new(tile_ptr_, GOB_EXTENT_B, tile_extent_B)
    IN  IF is_aligned_to(start, GOB_EXTENT_B) /\ is_aligned_to(end, GOB_EXTENT_B)
        THEN LET gobs == for_each_extent4d_aligned(start, end, GOB_EXTENT_B)
             IN  [k \in 1..Len(gobs) |->
                     CopyGOBCall("copy_whole_gob", gobs[k],
                                 BlockPointer_at(tile_ptr, gobs[k]),
                                 LinearPointer_offset(linear, gobs[k]),
                                 Offset4D(0, 0, 0, 0),
                                 OffsetPlus(Offset4D(0, 0, 0, 0), GOB_EXTENT_B))]
        ELSE LET gobs == for_each_extent4d(start, end, GOB_EXTENT_B)
             IN  [k \in 1..Len(gobs) |->
                     LET gob == gobs[k].chunk_start
                         tiled == BlockPointer_at(tile_ptr, gob)
                         linear_g == LinearPointer_offset(linear, gob)
                     IN  IF /\ gobs[k].start = Offset4D(0, 0, 0, 0)
                            /\ gobs[k].end =
                                 OffsetPlus(Offset4D(0, 0, 0, 0), GOB_EXTENT_B)
                         THEN CopyGOBCall("copy_whole_gob", gob, tiled,
                                          linear_g, gobs[k].start, gobs[k].end)
                         ELSE CopyGOBCall("copy_gob", gob, tiled, linear_g,
                                          gobs[k].start, gobs[k].end)]

\* copy_tile: the primitive calls made through its CopyGOB calls, in order.
copy_tile(tiling_, tile_ptr_, linear, start, end) ==
    LET gs == copy_tile_gobs(tiling_, tile_ptr_, linear, start, end)
    IN  Flatten([k \in 1..Len(gs) |->
            IF gs[k].fn = "copy_whole_gob"
            THEN CopyGOB2D_copy_whole_gob(gs[k].tiled, gs[k].linear)
            ELSE CopyGOB2D_copy_gob(gs[k].tiled, gs[k].linear,
                                    gs[k].start, gs[k].end)])

\* One call of copy_tile made by copy_tiled: tile is the tile origin.
CopyTileCall(tile, tile_ptr, linear, start, end) ==
    [tile |-> tile, tile_ptr |-> tile_ptr, linear |-> linear,
     start |-> start, end |-> end]

\* copy_tiled: the copy_tile calls it makes, in order.
copy_tiled_tiles(tiling_, level_extent_B_, level_tiled_ptr_, linear_, start, end) ==
    LET tile_extent_B == Tiling_extent_B(tiling_)
        level_ext == Extent4D_align(level_extent_B_, tile_extent_B)
        linear == LinearPointer_reverse(linear_, start)
        level_tiled_ptr ==
            BlockPointer_new(level_tiled_ptr_, tile_extent_B, level_ext)
        tiles == for_each_extent4d(start, end, tile_extent_B)
    IN  [k \in 1..Len(tiles) |->
            CopyTileCall(tiles[k].chunk_start,
                         BlockPointer_at(level_tiled_ptr, tiles[k].chunk_start),
                         LinearPointer_offset(linear, tiles[k].chunk_start),
                         tiles[k].start, tiles[k].end)]

\* copy_tiled: the primitive calls made through its copy_tile calls, in order.
copy_tiled(tiling_, level_extent_B_, level_tiled_ptr_, linear_, start, end) ==
    LET ts == copy_tiled_tiles(tiling_, level_extent_B_, level_tiled_ptr_,
                               linear_, start, end)
    IN  Flatten([k \in 1..Len(ts) |->
            copy_tile(tiling_, ts[k].tile_ptr, ts[k].linear,
                      ts[k].start, ts[k].end)])

----------------------------------------------------------------------------
(* Memory and the Copy16B primitives *)

\* A buffer of size bytes at address lo (both multiples of 16).  The byte at
\* address a starts with the label a; lines[a \div 16] is the 16-byte line
\* holding a once the line has been written, and << >> before.
Buffer(lo, size) ==
    [lo |-> lo, size |-> size,
     lines |-> [l \in (lo \div SECTOR_WIDTH_B)..
                      ((lo + size - 1) \div SECTOR_WIDTH_B) |-> << >>]]

InBuffer(m, a) == m.lo <= a /\ a < m.lo + m.size
RangeInBuffer(m, a, n) == n <= 0 \/ (InBuffer(m, a) /\ InBuffer(m, a + n - 1))

\* The addresses of a buffer
Addresses(m) == m.lo..(m.lo + m.size - 1)

\* Label read from an address outside every buffer.
WildLabel == -1

InitialLine(l) ==
    [j \in 1..SECTOR_WIDTH_B |-> l * SECTOR_WIDTH_B + j - 1]

Line(m, l) == IF Len(m.lines[l]) = 0 THEN InitialLine(l) ELSE m.lines[l]

\* The byte at address a
Load(m, a) ==
    IF ~InBuffer(m, a) THEN WildLabel
    ELSE IF Len(m.lines[a \div SECTOR_WIDTH_B]) = 0 THEN a
    ELSE m.lines[a \div SECTOR_WIDTH_B][(a % SECTOR_WIDTH_B) + 1]

\* The n bytes at addresses a .. a+n-1, line by line
RECURSIVE ReadBytes(_, _, _)
ReadBytes(m, a, n) ==
    IF n <= 0 THEN << >>
    ELSE LET l == a \div SECTOR_WIDTH_B
             i == a % SECTOR_WIDTH_B
             k == Min(n, SECTOR_WIDTH_B - i)
             part == IF ~InBuffer(m, a) THEN [j \in 1..k |-> WildLabel]
                     ELSE IF Len(m.lines[l]) = 0
                     THEN [j \in 1..k |-> a + j - 1]
                     ELSE SubSeq(m.lines[l], i + 1, i + k)
         IN  part \o ReadBytes(m, a + k, n - k)

\* The buffer after the bytes data are written at addresses a, a+1, ...;
\* a write outside the buffer is dropped.
RECURSIVE WriteBytes(_, _, _)
WriteBytes(m, a, data) ==
    IF Len(data) = 0 THEN m
    ELSE LET l == a \div SECTOR_WIDTH_B
             i == a % SECTOR_WIDTH_B
             k == Min(Len(data), SECTOR_WIDTH_B - i)
             m1 == IF ~InBuffer(m, a) THEN m
                   ELSE [m EXCEPT !.lines[l] =
                            SubSeq(Line(m, l), 1, i) \o SubSeq(data, 1, k)
                              \o SubSeq(Line(m, l), i + k + 1, SECTOR_WIDTH_B)]
         IN  WriteBytes(m1, a + k, SubSeq(data, k + 1, Len(data)))

\* std::ptr::copy_nonoverlapping(src, dst, count) from buffer src_m into dst_m
copy_nonoverlapping(src_m, dst_m, src, dst, count) ==
    WriteBytes(dst_m, dst, ReadBytes(src_m, src, count))

\* A pair of buffers: m.tiled and m.linear; m.wild records an access outside.
Touch(m, tiled, linear, bytes) ==
    m.wild \/ ~RangeInBuffer(m.tiled, tiled, bytes)
           \/ ~RangeInBuffer(m.linear, linear, bytes)


\* RawCopyToTiled::copy with the arguments in memcpy order
RawCopyToTiled_copy_memcpy_order(m, tiled, linear, bytes) ==
    [tiled |-> m.tiled,
     linear |-> copy_nonoverlapping(m.tiled, m.linear, tiled, linear, bytes),
     wild |-> Touch(m, tiled, linear, bytes)]

RawCopyToTiled_copy(m, tiled, linear, bytes) ==
    [tiled |-> copy_nonoverlapping(m.linear, m.tiled, linear, tiled, bytes),
     linear |-> m.linear,
     wild |-> Touch(m, tiled, linear, bytes)]

RawCopyToLinear_copy(m, tiled, linear, bytes) ==
    [tiled |-> m.tiled,
     linear |-> copy_nonoverlapping(m.tiled, m.linear, tiled, linear, bytes),
     wild |-> Touch(m, tiled, linear, bytes)]

\* tiled.offset(i).write(linear.offset(j).read())
CopyByteToTiled(m, tiled, linear, i, j) ==
    [tiled |-> copy_nonoverlapping(m.linear, m.tiled, linear + j, tiled + i, 1),
     linear |-> m.linear,
     wild |-> Touch(m, tiled + i, linear + j, 1)]

\* CopyX24S8ToTiled::copy reading linear.offset(i)
RECURSIVE CopyX24S8ToTiled_loop_undivided(_, _, _, _, _)
CopyX24S8ToTiled_loop_undivided(m, tiled, linear, bytes, i) ==
    IF i >= bytes THEN m
    ELSE CopyX24S8ToTiled_loop_undivided(
             CopyByteToTiled(m, tiled, linear, i, i), tiled, linear, bytes,
             i + 4)

\* CopyX24S8ToTiled::copy: the loop from index i on
RECURSIVE CopyX24S8ToTiled_loop(_, _, _, _, _)
CopyX24S8ToTiled_loop(m, tiled, linear, bytes, i) ==
    IF i >= bytes THEN m
    ELSE CopyX24S8ToTiled_loop(
             CopyByteToTiled(m, tiled, linear, i, i \div 4), tiled, linear,
             bytes, i + 4)

\* CopyX24S8ToTiled::copy: for i in (3..bytes).step_by(4)
CopyX24S8ToTiled_copy(m, tiled, linear, bytes) ==
    CopyX24S8ToTiled_loop(m, tiled, linear, bytes, 3)

\* CopyZ24X8ToTiled::copy: the loop from index i on
RECURSIVE CopyZ24X8ToTiled_loop(_, _, _, _, _)
CopyZ24X8ToTiled_loop(m, tiled, linear, bytes, i) ==
    IF i >= bytes THEN m
    ELSE LET m0 == CopyByteToTiled(m, tiled, linear, i + 0, i + 0)
             m1 == CopyByteToTiled(m0, tiled, linear, i + 1, i + 1)
             m2 == CopyByteToTiled(m1, tiled, linear, i + 2, i + 2)
         IN  CopyZ24X8ToTiled_loop(m2, tiled, linear, bytes, i + 4)

\* CopyZ24X8ToTiled::copy: for i in (0..bytes).step_by(4)
CopyZ24X8ToTiled_copy(m, tiled, linear, bytes) ==
    CopyZ24X8ToTiled_loop(m, tiled, linear, bytes, 0)

\* <C as Copy16B>::copy for the implementation named C
Copy16B_copy(C, m, tiled, linear, bytes) ==
    CASE C = "RawCopyToTiled" -> RawCopyToTiled_copy(m, tiled, linear, bytes)
      [] C = "RawCopyToLinear" -> RawCopyToLinear_copy(m, tiled, linear, bytes)
      [] C = "CopyX24S8ToTiled" ->
             CopyX24S8ToTiled_copy(m, tiled, linear, bytes)
      [] C = "CopyZ24X8ToTiled" ->
             CopyZ24X8ToTiled_copy(m, tiled, linear, bytes)

\* <C as Copy16B>::X_DIVISOR
X_DIVISOR(C) ==
    CASE C = "RawCopyToTiled" -> 1
      [] C = "RawCopyToLinear" -> 1
      [] C = "CopyX24S8ToTiled" -> 4
      [] C = "CopyZ24X8ToTiled" -> 1

\* The primitive calls cs[lo..hi] executed in order on the buffers m (split in
\* halves, each half evaluated before the next, to keep the evaluation shallow).
RECURSIVE RunFrom(_, _, _, _, _)
RunFrom(C, cs, lo, hi, m) ==
    IF lo > hi THEN m
    ELSE IF lo = hi
    THEN Copy16B_copy(C, m, cs[lo].tiled, cs[lo].linear, cs[lo].bytes)
    ELSE LET mid == (lo + hi) \div 2
         IN  CHOOSE r \in {RunFrom(C, cs, mid + 1, hi, m1) :
                              m1 \in {RunFrom(C, cs, lo, mid, m)}} : TRUE

Run(C, cs, m) == RunFrom(C, cs, 1, Len(cs), m)

----------------------------------------------------------------------------
(* Entry points: state machine of one round trip *)

CopySwizzle == {"_None", "_Z24X8", "_X24S8", "_Z32_X32", "_X32_X24S8"}

\* Rectangle R as (start, end)
end_B == OffsetPlus(offset_B, extent_B)

\* The tile-aligned level extent, which is what the tiled buffer covers.
AlignedLevel(t, le) == Extent4D_align(le, Tiling_extent_B(t))

\* Size in bytes of the linear buffers: the level, with seven rows of slack
\* on each side so that the buffers cover every row of every GOB touched.
LinearBufferSize(t, le) ==
    LET al == AlignedLevel(t, le)
    IN  14 * al.width + al.width * al.height * al.depth

Tilings ==
    {[gob_height_is_8 |-> TRUE, x_log2 |-> x, y_log2 |-> y, z_log2 |-> z] :
        x \in 0..MaxXLog2, y \in 0..MaxYLog2, z \in 0..MaxZLog2}

\* Level extents: one or two tiles along each axis, exactly or with the last
\* tile partly outside the level.
LevelExtents(t) ==
    LET te == Tiling_extent_B(t)
    IN  {Extent4D(nx * te.width - s[1], ny * te.height - s[2],
                  Max(1, nz * te.depth - s[3]), 1) :
            nx \in 1..2, ny \in 1..2, nz \in 1..2,
            s \in {<<0, 0, 0>>, <<5, 3, 1>>}}

\* Rectangle edges along one axis of length n: the whole axis, an interval
\* with both edges unaligned, an interval inside one sector, an interval
\* across the first chunk boundary, and an empty interval at an unaligned
\* and at an aligned coordinate.
XInterval(kind, W) ==
    CASE kind = "full" -> <<0, W>>
      [] kind = "inner" -> <<3, W - 5>>
      [] kind = "sub" -> <<3, 8>>
      [] kind = "corner" -> IF W > 48 THEN <<48, Min(W, 80)>> ELSE <<16, 48>>
      [] kind = "empty" -> <<3, 3>>
      [] kind = "empty0" -> <<0, 0>>
YInterval(kind, H) ==
    CASE kind = "full" -> <<0, H>>
      [] kind = "inner" -> <<1, H - 2>>
      [] kind = "sub" -> <<1, 4>>
      [] kind = "corner" -> IF H > 6 THEN <<6, Min(H, 10)>> ELSE <<2, 4>>
      [] kind = "empty" -> <<1, 1>>
      [] kind = "empty0" -> <<0, 0>>
ZIntervals(D) == {<<0, D>>, <<D - 1, D>>, <<D - 1, D - 1>>}

RectKinds ==
    {<<"full", "full">>, <<"inner", "inner">>, <<"sub", "sub">>,
     <<"corner", "corner">>, <<"full", "inner">>, <<"inner", "full">>,
     <<"empty", "inner">>, <<"inner", "empty">>, <<"empty0", "full">>,
     <<"full", "empty0">>}

\* The arguments of a round trip for a tiling of ts; the tiled buffer covers
\* the tile-aligned level and slack more bytes.
CopyInitWith(ts, slack) ==
    /\ pc = "init"
    /\ tiling \in ts
    /\ level_extent_B \in LevelExtents(tiling)
    /\ LET al == AlignedLevel(tiling, level_extent_B)
       IN  al.width * al.height * al.depth <= MaxLevelGobs * 512
    /\ \E k \in RectKinds, zi \in ZIntervals(level_extent_B.depth) :
          LET xi == XInterval(k[1], level_extent_B.width)
              yi == YInterval(k[2], level_extent_B.height)
          IN
          /\ offset_B = Offset4D(xi[1], yi[1], zi[1], 0)
          /\ extent_B = Extent4D(xi[2] - xi[1], yi[2] - yi[1], zi[2] - zi[1], 1)
    /\ swizzle \in CopySwizzle
    /\ swizzle # "_None" =>
          /\ tiling.x_log2 = 0 /\ tiling.z_log2 = 0
          /\ level_extent_B.width = 64 /\ level_extent_B.depth = 1
          /\ offset_B.x = 3 /\ offset_B.y = 1
    \* linear view: the rows of the level, or the rows of R packed tightly
    /\ \E layout \in {"level", "tight"} :
          /\ linear_row_stride_B =
                IF layout = "level" THEN level_extent_B.width
                ELSE extent_B.width
          /\ linear_plane_stride_B =
                IF layout = "level"
                THEN level_extent_B.width * level_extent_B.height
                ELSE extent_B.width * extent_B.height
          /\ LET origin ==
                    7 * linear_row_stride_B +
                    (IF layout = "level"
                     THEN offset_B.z * linear_plane_stride_B
                          + offset_B.y * linear_row_stride_B + offset_B.x
                     ELSE 0)
             IN  /\ linear_src = 16 + origin
                 /\ linear_dst = (USIZE \div 2) + origin
    /\ tiled_ptr = USIZE \div 4
    /\ src_mem = Buffer(16, LinearBufferSize(tiling, level_extent_B))
    /\ dst_mem = Buffer(USIZE \div 2, LinearBufferSize(tiling, level_extent_B))
    /\ LET al == AlignedLevel(tiling, level_extent_B)
       IN  tiled_mem = Buffer(tiled_ptr,
                              al.width * al.height * al.depth + slack)
    /\ wild = FALSE
    /\ copy16b = "none"
    /\ x_divisor = 0
    /\ calls = << >>

CopyInit == CopyInitWith(Tilings, 0)

copyParams == <<tiling, level_extent_B, offset_B, extent_B, swizzle,
                linear_row_stride_B, linear_plane_stride_B, linear_src,
                linear_dst, tiled_ptr>>

nil_copy_linear_to_tiled ==
    /\ pc = "init"
    /\ LET linear_pointer ==
               LinearPointer_new(linear_src, 1, linear_row_stride_B,
                                 linear_plane_stride_B)
       IN
       \E cs \in {copy_tiled(tiling, level_extent_B, tiled_ptr,
                             linear_pointer, offset_B, end_B)} :
       \E m \in {Run("RawCopyToTiled", cs,
                      [tiled |-> tiled_mem, linear |-> src_mem,
                       wild |-> wild])} :
           /\ tiled_mem' = m.tiled
           /\ src_mem' = m.linear
           /\ wild' = m.wild
           /\ calls' = cs
           /\ copy16b' = "RawCopyToTiled"
           /\ x_divisor' = LinearPointer_x_divisor(linear_pointer)
    /\ pc' = "l2t"
    /\ UNCHANGED <<copyParams, dst_mem>>

nil_copy_tiled_to_linear ==
    /\ pc = "l2t"
    /\ LET linear_pointer ==
               LinearPointer_new(linear_dst, 1, linear_row_stride_B,
                                 linear_plane_stride_B)
       IN
       \E cs \in {copy_tiled(tiling, level_extent_B, tiled_ptr,
                             linear_pointer, offset_B, end_B)} :
       \E m \in {Run("RawCopyToLinear", cs,
                      [tiled |-> tiled_mem, linear |-> dst_mem,
                       wild |-> wild])} :
           /\ tiled_mem' = m.tiled
           /\ dst_mem' = m.linear
           /\ wild' = m.wild
           /\ calls' = cs
           /\ copy16b' = "RawCopyToLinear"
           /\ x_divisor' = LinearPointer_x_divisor(linear_pointer)
    /\ pc' = "t2l"
    /\ UNCHANGED <<copyParams, src_mem>>

----------------------------------------------------------------------------
(* Idle values of the variables a specification does not use *)

CopyIdle ==
    /\ pc = "idle" /\ tiling = 0 /\ level_extent_B = 0 /\ offset_B = 0
    /\ extent_B = 0 /\ swizzle = 0 /\ linear_row_stride_B = 0
    /\ linear_plane_stride_B = 0 /\ linear_src = 0 /\ linear_dst = 0
    /\ tiled_ptr = 0 /\ src_mem = 0 /\ tiled_mem = 0
    /\ dst_mem = 0 /\ wild = FALSE /\ copy16b = "none" /\ x_divisor = 0
    /\ calls = << >>

GobIdle ==
    /\ gpc = "idle" /\ gstart = 0 /\ gend = 0 /\ gdir = "none" /\ glin = 0
    /\ gtil = 0 /\ gwild = FALSE /\ gvisit = << >> /\ gcalls = << >>

PartIdle ==
    /\ ppc = "idle" /\ pstart = 0 /\ pend = 0 /\ pchunk = 0 /\ pout = << >>

VmIdle ==
    /\ heap_start = 0 /\ heap_size = 0 /\ holes = << >> /\ lock = "none"
    /\ tpc = << >> /\ treq = << >> /\ tret = << >> /\ live = {}

PrimIdle ==
    /\ cpc = "idle" /\ cprim = "none" /\ cbytes = 0 /\ ctiled = 0
    /\ clinear = 0 /\ cmem = 0

----------------------------------------------------------------------------
(* Specification of the tiled copy *)

Init == CopyInit /\ GobIdle /\ PartIdle /\ VmIdle /\ PrimIdle

Next ==
    /\ \/ nil_copy_linear_to_tiled
       \/ nil_copy_tiled_to_linear
    /\ UNCHANGED <<gobVars, partVars, vmVars, primVars>>

Spec == Init /\ [][Next]_vars

----------------------------------------------------------------------------
(* Coordinates and addresses used to state the properties of the copy *)

\* Byte coordinates <<x, y, z>> of the rectangle R
RCoords ==
    {<<x, y, z>> : x \in offset_B.x..(end_B.x - 1),
                   y \in offset_B.y..(end_B.y - 1),
                   z \in offset_B.z..(end_B.z - 1)}

\* Linear address of level coordinate c when pointer p addresses R's origin
LinearAddr(p, c) ==
    p + (c[3] - offset_B.z) * linear_plane_stride_B
      + (c[2] - offset_B.y) * linear_row_stride_B
      + (c[1] - offset_B.x)

\* Entry of the gob2d_for_each_16b table for the 16-byte line at (x, y) of a
\* GOB: its offset, or -1 when the table has no such line.
gob2d_offset(x, y) ==
    LET ks == {k \in 1..Len(gob2d_for_each_16b) :
                  gob2d_for_each_16b[k].x = x /\ gob2d_for_each_16b[k].y = y}
    IN  IF ks = {} THEN -1
        ELSE gob2d_for_each_16b[CHOOSE k \in ks : TRUE].offset

gob2d_offset_table ==
    [x \in {0, 16, 32, 48}, y \in 0..7 |-> gob2d_offset(x, y)]

\* Offset in the tiled buffer of level coordinate (x, y, z), composed as the
\* traversal composes it: level BlockPointer for the tile, tile BlockPointer
\* for the GOB, table entry for the 16-byte line, plus x mod 16.
tiled_byte_offset(t, le, x, y, z) ==
    LET te == Tiling_extent_B(t)
        level_ptr == BlockPointer_new(0, te, Extent4D_align(le, te))
        tx == x % te.width
        ty == y % te.height
        tz == z % te.depth
        tile == BlockPointer_at(level_ptr, Offset4D(x - tx, y - ty, z - tz, 0))
        tile_ptr == BlockPointer_new(tile, GOB_EXTENT_B, te)
        gx == tx % GOB_EXTENT_B.width
        gy == ty % GOB_EXTENT_B.height
        gob == BlockPointer_at(tile_ptr, Offset4D(tx - gx, ty - gy, tz, 0))
    IN  gob + gob2d_offset_table[gx - (gx % 16), gy] + (gx % 16)

TiledAddr(c) ==
    tiled_ptr + tiled_byte_offset(tiling, level_extent_B, c[1], c[2], c[3])

\* R has an edge that is not on a GOB row boundary / a sector column boundary
UnalignedRows == offset_B.y % 8 # 0 \/ end_B.y % 8 # 0
UnalignedColumns == offset_B.x % 16 # 0 \/ end_B.x % 16 # 0

----------------------------------------------------------------------------
(* Properties of the tiled copy *)

\* C1: round trip.  After nil_copy_linear_to_tiled over R followed by
\* nil_copy_tiled_to_linear over the same R, every byte of the destination
\* linear buffer inside R holds the byte the source linear buffer held at the
\* same position of R.
C1_RoundTrip ==
    pc = "t2l" =>
        \A c \in RCoords :
            Load(dst_mem, LinearAddr(linear_dst, c)) = LinearAddr(linear_src, c)

C1_Witness ==
    /\ pc = "t2l"
    /\ UnalignedRows /\ UnalignedColumns
    /\ extent_B.width > 64 /\ extent_B.depth > 1
    /\ \A c \in RCoords :
           Load(dst_mem, LinearAddr(linear_dst, c)) = LinearAddr(linear_src, c)

\* C2: nil_copy_tiled_to_linear over R leaves every byte of the linear
\* destination buffer outside R at its original value.
C2_LinearFrame ==
    pc = "t2l" =>
        LET inside == {LinearAddr(linear_dst, c) : c \in RCoords}
        IN  \A a \in Addresses(dst_mem) :
                a \notin inside => Load(dst_mem, a) = a

\* C3: nil_copy_linear_to_tiled over R modifies only the tiled bytes whose
\* address is the image of a byte coordinate inside R.
C3_TiledFrame ==
    pc = "l2t" =>
        LET inside == {TiledAddr(c) : c \in RCoords}
        IN  \A a \in Addresses(tiled_mem) :
                a \notin inside => Load(tiled_mem, a) = a

\* The tile-aligned level is copied whole
WholeLevel ==
    /\ offset_B = Offset4D(0, 0, 0, 0)
    /\ extent_B = AlignedLevel(tiling, level_extent_B)

\* Tiled addresses written by the calls of the last entry point
CallTiledBytes ==
    UNION {calls[k].tiled..(calls[k].tiled + calls[k].bytes - 1) :
              k \in 1..Len(calls)}

\* C5: bijectivity of the tiled address.  For the tiling and level of the
\* copy, the tiled byte offset composed by the traversal is injective over
\* the coordinates of the tile-aligned level extent, within the first tile it
\* takes every value of [0, tile_size_B) exactly once, and a copy of the
\* whole level writes exactly these offsets.
C5_TiledAddressBijective ==
    (pc = "l2t" /\ WholeLevel) =>
        LET al == AlignedLevel(tiling, level_extent_B)
            te == Tiling_extent_B(tiling)
            offs == {tiled_byte_offset(tiling, level_extent_B, x, y, z) :
                        x \in 0..(al.width - 1), y \in 0..(al.height - 1),
                        z \in 0..(al.depth - 1)}
            tile == {tiled_byte_offset(tiling, level_extent_B, x, y, z) :
                        x \in 0..(te.width - 1), y \in 0..(te.height - 1),
                        z \in 0..(te.depth - 1)}
        IN  /\ Cardinality(offs) = al.width * al.height * al.depth
            /\ tile = 0..(te.width * te.height * te.depth - 1)
            /\ CallTiledBytes = {tiled_ptr + o : o \in offs}

C5_Witness ==
    /\ pc = "l2t" /\ WholeLevel
    /\ tiling.y_log2 = 1
    /\ level_extent_B.width > Tiling_extent_B(tiling).width
    /\ Len(calls) = 4 * 32

\* C8: direction.  nil_copy_linear_to_tiled leaves the linear source (and
\* every buffer but the tiled one) unchanged; nil_copy_tiled_to_linear leaves
\* the tiled source (and every buffer but the linear destination) unchanged;
\* neither touches an address outside the buffers.
C8_Direction ==
    [][/\ pc' = "l2t" => (src_mem' = src_mem /\ dst_mem' = dst_mem /\ ~wild')
       /\ pc' = "t2l" => (tiled_mem' = tiled_mem /\ src_mem' = src_mem
                          /\ ~wild')]_vars

C8_Witness ==
    /\ pc = "t2l"
    /\ \E a \in Addresses(tiled_mem) : Load(tiled_mem, a) # a
    /\ \E a \in Addresses(dst_mem) : Load(dst_mem, a) # a
    /\ \A a \in Addresses(src_mem) : Load(src_mem, a) = a

\* C9: each entry point selects its sector copy primitive by (direction,
\* swizzle): a call with a swizzle other than None does not use the primitive
\* used for swizzle None, and uses the x_divisor of the swizzle.
C9_SwizzleSelectsPrimitive ==
    (pc \in {"l2t", "t2l"} /\ swizzle # "_None") =>
        /\ copy16b \notin {"RawCopyToTiled", "RawCopyToLinear"}
        /\ (swizzle = "_X24S8" => x_divisor = 4)

----------------------------------------------------------------------------
(* One GOB: CopyGOB2D::copy_gob and CopyGOB2D::copy_whole_gob *)

\* a | b on unsigned integers, bit by bit
RECURSIVE Or(_, _)
Or(a, b) ==
    IF a = 0 THEN b
    ELSE IF b = 0 THEN a
    ELSE (IF a % 2 = 1 \/ b % 2 = 1 THEN 1 ELSE 0)
             + 2 * Or(a \div 2, b \div 2)

\* get_pixel_offset of the layout comment:
\* (x & 15) | (y & 1) << 4 | (x & 16) << 1 | (y & 2) << 5 | (x & 32) << 3
get_pixel_offset(x, y) ==
    Or(Or(Or(Or(And(x, 15), And(y, 1) * Pow2(4)), And(x, 16) * Pow2(1)),
          And(y, 2) * Pow2(5)), And(x, 32) * Pow2(3))

\* Clip edges explored inside the 64x8 GOB
GobXEdges == {0, 3, 16, 21, 32, 48, 61, 64}
GobYEdges == {0, 1, 2, 5, 8}

GobLinear == LinearPointer_new(glin.lo, 1, GOB_EXTENT_B.width,
                               GOB_EXTENT_B.width * GOB_EXTENT_B.height)

GobInit ==
    /\ gpc = "init"
    /\ \E x0 \in GobXEdges, x1 \in GobXEdges, y0 \in GobYEdges, y1 \in GobYEdges :
          /\ x0 <= x1 /\ y0 <= y1
          /\ gstart = Offset4D(x0, y0, 0, 0)
          /\ gend = Offset4D(x1, y1, 1, 1)
    /\ gdir \in {"RawCopyToTiled", "RawCopyToLinear"}
    /\ glin = Buffer(USIZE \div 2, 512)
    /\ gtil = Buffer(USIZE \div 4, 512)
    /\ gwild = FALSE
    /\ gvisit = << >>
    /\ gcalls = << >>

\* CG::copy_gob(tiled, linear, start, end) with CG = CopyGOB2D<gdir>
CopyGob ==
    /\ gpc = "init"
    /\ \E cs \in {CopyGOB2D_copy_gob(gtil.lo, GobLinear, gstart, gend)} :
       \E m \in {Run(gdir, cs, [tiled |-> gtil, linear |-> glin,
                                wild |-> gwild])} :
           /\ gtil' = m.tiled
           /\ glin' = m.linear
           /\ gwild' = m.wild
           /\ gcalls' = cs
    /\ gvisit' = gob2d_for_each_16b
    /\ gpc' = "copy_gob"
    /\ UNCHANGED <<gstart, gend, gdir>>

\* CG::copy_whole_gob(tiled, linear) with CG = CopyGOB2D<gdir>
CopyWholeGob ==
    /\ gpc = "init"
    /\ \E cs \in {CopyGOB2D_copy_whole_gob(gtil.lo, GobLinear)} :
       \E m \in {Run(gdir, cs, [tiled |-> gtil, linear |-> glin,
                                wild |-> gwild])} :
           /\ gtil' = m.tiled
           /\ glin' = m.linear
           /\ gwild' = m.wild
           /\ gcalls' = cs
    /\ gvisit' = gob2d_for_each_16b
    /\ gpc' = "copy_whole_gob"
    /\ UNCHANGED <<gstart, gend, gdir>>

InitGob == CopyIdle /\ GobInit /\ PartIdle /\ VmIdle /\ PrimIdle

NextGob ==
    /\ \/ CopyGob
       \/ CopyWholeGob
    /\ UNCHANGED <<copyVars, partVars, vmVars, primVars>>

SpecGob == InitGob /\ [][NextGob]_vars

\* C6: the GOB enumeration matches the hardware formula: every (offset, x, y)
\* passed by gob2d_for_each_16b has offset = get_pixel_offset(x, y).
C6_MatchesHardwareFormula ==
    gpc # "init" =>
        \A k \in 1..Len(gvisit) :
            gvisit[k].offset = get_pixel_offset(gvisit[k].x, gvisit[k].y)

\* C7: the GOB enumeration is exhaustive and non-repeating: the offsets passed
\* are the 16-byte-aligned offsets of [0, 512), each once; the (x, y) passed
\* are {0,16,32,48} x {0..7}, each once; and copy_whole_gob moves each of the
\* 512 bytes of the GOB exactly once.
C7_EnumerationExhaustive ==
    gpc # "init" =>
        /\ Len(gvisit) = 32
        /\ {gvisit[k].offset : k \in 1..Len(gvisit)} = {16 * j : j \in 0..31}
        /\ {<<gvisit[k].x, gvisit[k].y>> : k \in 1..Len(gvisit)}
              = {0, 16, 32, 48} \X (0..7)
        /\ gpc = "copy_whole_gob" =>
              /\ \A a \in Addresses(gtil) :
                    Cardinality({k \in 1..Len(gcalls) :
                        a - gcalls[k].tiled \in 0..(gcalls[k].bytes - 1)}) = 1
              /\ \A a \in Addresses(glin) :
                    Cardinality({k \in 1..Len(gcalls) :
                        a - gcalls[k].linear \in 0..(gcalls[k].bytes - 1)}) = 1

C7_Witness ==
    /\ gpc = "copy_whole_gob"
    /\ gdir = "RawCopyToTiled"
    /\ Len(gvisit) = 32
    /\ \A a \in Addresses(gtil) : Load(gtil, a) # a

----------------------------------------------------------------------------
(* The rectangle partitioner on its own: for_each_extent4d *)

PartMax == 5          \* largest x coordinate of a partitioned rectangle

\* Power-of-two chunk lengths explored
PartChunks == {1, 2, 4}

PartInit ==
    /\ ppc = "init"
    /\ \E x0 \in 0..PartMax, x1 \in 0..PartMax,
          y0 \in 0..(PartMax - 2), y1 \in 0..(PartMax - 2),
          z0 \in 0..(PartMax - 3), z1 \in 0..(PartMax - 3) :
          /\ x0 <= x1 /\ y0 <= y1 /\ z0 <= z1
          /\ pstart = Offset4D(x0, y0, z0, 0)
          /\ pend = Offset4D(x1, y1, z1, 1)
    /\ \E w \in PartChunks, h \in PartChunks \ {4}, d \in PartChunks \ {4} :
          pchunk = Extent4D(w, h, d, 1)
    /\ pout = << >>

\* for_each_extent4d(start, end, chunk, f) with f recording its arguments
ForEachExtent4d ==
    /\ ppc = "init"
    /\ pout' = for_each_extent4d(pstart, pend, pchunk)
    /\ ppc' = "done"
    /\ UNCHANGED <<pstart, pend, pchunk>>

InitPart == CopyIdle /\ GobIdle /\ PartInit /\ VmIdle /\ PrimIdle

NextPart == ForEachExtent4d /\ UNCHANGED <<copyVars, gobVars, vmVars, primVars>>

SpecPart == InitPart /\ [][NextPart]_vars

\* The points of the sub-box [chunk_start + start, chunk_start + end) of a call
SubBox(c) ==
    {p \in ((c.chunk_start.x + c.start.x)..(c.chunk_start.x + c.end.x - 1))
         \X ((c.chunk_start.y + c.start.y)..(c.chunk_start.y + c.end.y - 1))
         \X ((c.chunk_start.z + c.start.z)..(c.chunk_start.z + c.end.z - 1)) :
        TRUE}

PartRect ==
    (pstart.x..(pend.x - 1)) \X (pstart.y..(pend.y - 1))
        \X (pstart.z..(pend.z - 1))

\* C4: partitioner completeness: the sub-boxes [chunk_origin + local_start,
\* chunk_origin + local_end) yielded by for_each_extent4d are pairwise
\* disjoint and their union is exactly the rectangle [start, end).
C4_PartitionerComplete ==
    ppc = "done" =>
        /\ \A i \in 1..Len(pout), j \in 1..Len(pout) :
              i # j => SubBox(pout[i]) \cap SubBox(pout[j]) = {}
        /\ UNION {SubBox(pout[i]) : i \in 1..Len(pout)} = PartRect

C4_Witness ==
    /\ ppc = "done"
    /\ pstart = Offset4D(1, 1, 0, 0)
    /\ pend = Offset4D(5, 3, 2, 1)
    /\ pchunk = Extent4D(2, 2, 2, 1)
    /\ Len(pout) = 6
    /\ \E i \in 1..Len(pout) : pout[i].start.x > 0
    /\ \E i \in 1..Len(pout) : pout[i].end.x < pchunk.width

----------------------------------------------------------------------------
(* The VMA heap: VM, VMInner and the util_vma_heap they wrap *)

HeapSize == 8         \* size of the heap handed to VM::new
MaxAllocSize == 3     \* largest size passed to alloc

HeapStarts == {4, 6}
Aligns == {1, 2, 4}
Threads == {"t1", "t2"}
NoThread == "none"

Hole(offset, size) == [offset |-> offset, size |-> size]

RemoveAt(s, i) == SubSeq(s, 1, i - 1) \o SubSeq(s, i + 1, Len(s))
ReplaceAt(s, i, r) == SubSeq(s, 1, i - 1) \o r \o SubSeq(s, i + 1, Len(s))

\* util_vma_hole_alloc: take [offset, offset + size) out of hole i
util_vma_hole_alloc(hs, i, offset, size) ==
    LET hole == hs[i]
        waste == (hole.size - size) - (offset - hole.offset)
    IN  IF offset = hole.offset /\ size = hole.size
        THEN RemoveAt(hs, i)
        ELSE IF offset = hole.offset
        THEN ReplaceAt(hs, i, << Hole(hole.offset + size, hole.size - size) >>)
        ELSE IF waste = 0
        THEN ReplaceAt(hs, i, << Hole(hole.offset, hole.size - size) >>)
        ELSE ReplaceAt(hs, i, << Hole(offset + size, waste),
                                 Hole(hole.offset, offset - hole.offset) >>)

\* util_vma_heap_alloc, allocating from the highest hole downwards; 0 when no
\* hole can hold the request
RECURSIVE util_vma_heap_alloc_from(_, _, _, _)
util_vma_heap_alloc_from(hs, i, size, alignment) ==
    IF i > Len(hs) THEN [holes |-> hs, addr |-> 0]
    ELSE LET hole == hs[i]
             offset == (((hole.size - size) + hole.offset) \div alignment)
                           * alignment
         IN  IF size > hole.size
             THEN util_vma_heap_alloc_from(hs, i + 1, size, alignment)
             ELSE IF offset < hole.offset
             THEN util_vma_heap_alloc_from(hs, i + 1, size, alignment)
             ELSE [holes |-> util_vma_hole_alloc(hs, i, offset, size),
                   addr |-> offset]

util_vma_heap_alloc(hs, size, alignment) ==
    util_vma_heap_alloc_from(hs, 1, size, alignment)

\* util_vma_heap_free: give [offset, offset + size) back, merging it with the
\* holes right above and right below it
util_vma_heap_free(hs, offset, size) ==
    LET above == {i \in 1..Len(hs) : hs[i].offset > offset}
        hi == Cardinality(above)
        lo == hi + 1
        high_adjacent == hi >= 1 /\ hs[hi].offset = offset + size
        low_adjacent == lo <= Len(hs) /\ hs[lo].offset + hs[lo].size = offset
    IN  IF high_adjacent /\ low_adjacent
        THEN SubSeq(hs, 1, hi - 1)
                 \o << Hole(hs[lo].offset, hs[lo].size + size + hs[hi].size) >>
                 \o SubSeq(hs, lo + 1, Len(hs))
        ELSE IF high_adjacent
        THEN ReplaceAt(hs, hi, << Hole(offset, hs[hi].size + size) >>)
        ELSE IF low_adjacent
        THEN ReplaceAt(hs, lo, << Hole(hs[lo].offset, hs[lo].size + size) >>)
        ELSE SubSeq(hs, 1, hi) \o << Hole(offset, size) >>
                 \o SubSeq(hs, lo, Len(hs))

\* util_vma_heap_init
util_vma_heap_init(start, size) ==
    IF size > 0 THEN util_vma_heap_free(<< >>, start, size) ELSE << >>

None == [some |-> FALSE, addr |-> 0]
Some(addr) == [some |-> TRUE, addr |-> addr]

\* VMInner::alloc keeping a zero address
VMInner_alloc_keep_zero(hs, size, alignment) ==
    LET r == util_vma_heap_alloc(hs, size, alignment)
    IN  [holes |-> r.holes, ret |-> Some(r.addr)]


\* VMInner::alloc working on a copy of the heap, which is then dropped
VMInner_alloc_on_copy(hs, size, alignment) ==
    LET r == util_vma_heap_alloc(hs, size, alignment)
    IN  [holes |-> hs,
         ret |-> IF r.addr # 0 THEN Some(r.addr) ELSE None]

\* VMInner::alloc passing alignment and size in the wrong order
VMInner_alloc_swapped(hs, size, alignment) ==
    LET r == util_vma_heap_alloc(hs, alignment, size)
    IN  [holes |-> r.holes,
         ret |-> IF r.addr # 0 THEN Some(r.addr) ELSE None]

\* VMInner::alloc: NonZeroU64::new(addr).map(|addr| VMA { vma: addr })
VMInner_alloc(hs, size, alignment) ==
    LET r == util_vma_heap_alloc(hs, size, alignment)
    IN  [holes |-> r.holes,
         ret |-> IF r.addr # 0 THEN Some(r.addr) ELSE None]


\* VMInner::free passing size and address in the wrong order
VMInner_free_swapped(hs, address, size) == util_vma_heap_free(hs, size, address)

VMInner_free(hs, address, size) == util_vma_heap_free(hs, address, size)

VMInner_new(start, size) == util_vma_heap_init(start, size)

\* VM::new(start, size): the heap is published fully constructed
VmInit ==
    /\ heap_start \in HeapStarts
    /\ heap_size = HeapSize
    /\ holes = VMInner_new(heap_start, heap_size)
    /\ lock = NoThread
    /\ tpc = [t \in Threads |-> "idle"]
    /\ treq = [t \in Threads |-> [op |-> "none", size |-> 0, align |-> 0]]
    /\ tret = [t \in Threads |-> None]
    /\ live = {}


\* Mutex::lock that does not wait for the holder
VmLock_no_wait(t) ==
    /\ tpc[t] = "idle"
    /\ lock' = t
    /\ tpc' = [tpc EXCEPT ![t] = "locked"]
    /\ UNCHANGED <<heap_start, heap_size, holes, treq, tret, live>>

\* vm.lock(): Mutex::lock by thread t
VmLock(t) ==
    /\ tpc[t] = "idle"
    /\ lock = NoThread
    /\ lock' = t
    /\ tpc' = [tpc EXCEPT ![t] = "locked"]
    /\ UNCHANGED <<heap_start, heap_size, holes, treq, tret, live>>

\* guard.alloc(size, align) by the thread holding the lock
VmAlloc(t) ==
    /\ tpc[t] = "locked"
    /\ lock = t
    /\ \E size \in 1..MaxAllocSize, alignment \in Aligns :
          LET r == VMInner_alloc(holes, size, alignment)
          IN  /\ holes' = r.holes
              /\ tret' = [tret EXCEPT ![t] = r.ret]
              /\ treq' = [treq EXCEPT ![t] = [op |-> "alloc", size |-> size,
                                              align |-> alignment]]
              /\ live' = IF r.ret.some
                         THEN live \cup {[addr |-> r.ret.addr, size |-> size]}
                         ELSE live
    /\ tpc' = [tpc EXCEPT ![t] = "done"]
    /\ UNCHANGED <<heap_start, heap_size, lock>>

\* guard.free(addr, size) with a pair alloc returned and nobody freed yet
VmFree(t) ==
    /\ tpc[t] = "locked"
    /\ lock = t
    /\ \E a \in live :
          /\ holes' = VMInner_free(holes, a.addr, a.size)
          /\ live' = live \ {a}
          /\ treq' = [treq EXCEPT ![t] = [op |-> "free", size |-> a.size,
                                          align |-> 0]]
    /\ tret' = [tret EXCEPT ![t] = None]
    /\ tpc' = [tpc EXCEPT ![t] = "done"]
    /\ UNCHANGED <<heap_start, heap_size, lock>>

\* the MutexGuard is dropped at the end of the statement
VmUnlock(t) ==
    /\ tpc[t] = "done"
    /\ lock = t
    /\ lock' = NoThread
    /\ tpc' = [tpc EXCEPT ![t] = "idle"]
    /\ treq' = [treq EXCEPT ![t] = [op |-> "none", size |-> 0, align |-> 0]]
    /\ tret' = [tret EXCEPT ![t] = None]
    /\ UNCHANGED <<heap_start, heap_size, holes, live>>

InitVM == CopyIdle /\ GobIdle /\ PartIdle /\ VmInit /\ PrimIdle

NextVM ==
    /\ \E t \in Threads :
          \/ VmLock(t)
          \/ VmAlloc(t)
          \/ VmFree(t)
          \/ VmUnlock(t)
    /\ UNCHANGED <<copyVars, gobVars, partVars, primVars>>

SpecVM == InitVM /\ [][NextVM]_vars

\* C10: every address returned as Some by alloc(size, align) on a heap
\* created by new(start, heap_size) is non-zero, a multiple of align, and
\* satisfies start <= addr and addr + size <= start + heap_size.
C10_AllocResultValid ==
    \A t \in Threads :
        (tpc[t] = "done" /\ treq[t].op = "alloc" /\ tret[t].some) =>
            /\ tret[t].addr # 0
            /\ tret[t].addr % treq[t].align = 0
            /\ heap_start <= tret[t].addr
            /\ tret[t].addr + treq[t].size <= heap_start + heap_size

C10_Witness ==
    \E t \in Threads :
        /\ tpc[t] = "done" /\ treq[t].op = "alloc" /\ tret[t].some
        /\ treq[t].align = 4 /\ treq[t].size = 3
        /\ live # {[addr |-> tret[t].addr, size |-> treq[t].size]}

----------------------------------------------------------------------------
(* Properties of the VMA heap under concurrent use *)

\* The addresses of an allocation [addr, addr + size)
AllocRange(a) == a.addr..(a.addr + a.size - 1)

\* Threads inside the critical section of the Mutex
InCritical(t) == tpc[t] \in {"locked", "done"}

\* C11: under any interleaving of alloc and free by several threads, the
\* ranges [addr, addr + size) of the outstanding allocations are pairwise
\* disjoint.
C11_OutstandingDisjoint ==
    \A a \in live, b \in live :
        a # b => AllocRange(a) \cap AllocRange(b) = {}

C11_Witness ==
    /\ Cardinality(live) >= 3
    /\ \E t \in Threads, u \in Threads :
          /\ t # u
          /\ tpc[t] = "done" /\ treq[t].op = "alloc" /\ tret[t].some
          /\ tpc[u] = "idle"

\* C12: access to the heap is serialized by the Mutex: a thread executes
\* alloc or free only while it holds the lock, so no two threads are inside
\* alloc or free at the same time.
C12_MutualExclusion ==
    /\ \A t \in Threads : InCritical(t) => lock = t
    /\ \A t \in Threads, u \in Threads :
          (t # u /\ InCritical(t)) => ~InCritical(u)

C12_Witness ==
    \E t \in Threads, u \in Threads :
        /\ t # u
        /\ tpc[t] = "locked" /\ lock = t
        /\ tpc[u] = "idle"
        /\ live # {}

\* C13: once every successful allocation has been freed with the exact
\* (addr, size) it was allocated with, the free set of the heap is its
\* initial free set, the single interval [start, start + size).
C13_FreeSetRestored ==
    live = {} => holes = << Hole(heap_start, heap_size) >>

C13_Witness ==
    /\ live = {}
    /\ \E t \in Threads : tpc[t] = "done" /\ treq[t].op = "free"
    /\ holes = << Hole(heap_start, heap_size) >>

\* Some free interval of hs can hold size bytes at an address that is a
\* multiple of alignment
CanHold(hs, size, alignment) ==
    \E i \in 1..Len(hs) :
        \E a \in hs[i].offset..(hs[i].offset + hs[i].size - 1) :
            /\ a % alignment = 0
            /\ a + size <= hs[i].offset + hs[i].size

\* C14: alloc has exactly one failure outcome: it returns None exactly when
\* no free interval of the heap can hold size bytes at the requested
\* alignment, and Some otherwise.
C14_NoneIffExhausted ==
    [][\A t \in Threads :
          (tpc[t] = "locked" /\ tpc'[t] = "done" /\ treq'[t].op = "alloc") =>
              (tret'[t].some <=> CanHold(holes, treq'[t].size, treq'[t].align))
      ]_vars

C14_Witness ==
    \E t \in Threads :
        /\ tpc[t] = "done" /\ treq[t].op = "alloc" /\ ~tret[t].some
        /\ Len(holes) >= 2
        /\ treq[t].size = 1 /\ treq[t].align = 4

----------------------------------------------------------------------------
(* The round trip for tilings with 4-row GOBs *)

\* Tilings with gob_height_is_8 = false
Tilings4 ==
    {[gob_height_is_8 |-> FALSE, x_log2 |-> x, y_log2 |-> y, z_log2 |-> z] :
        x \in 0..MaxXLog2, y \in 0..MaxYLog2, z \in 0..MaxZLog2}

\* Bytes of the largest tile explored: the tiled buffer is given this much
\* room past the tile-aligned level, which covers every byte the traversal
\* touches.
TiledSlack4 == 64 * Pow2(MaxXLog2) * 4 * Pow2(MaxYLog2) * Pow2(MaxZLog2)

Init4 ==
    /\ CopyInitWith(Tilings4, TiledSlack4)
    /\ GobIdle /\ PartIdle /\ VmIdle /\ PrimIdle

Spec4 == Init4 /\ [][Next]_vars

\* C15: the round trip also holds for tilings with gob_height_is_8 = false:
\* after nil_copy_linear_to_tiled over R and nil_copy_tiled_to_linear over
\* the same R, every byte of the destination inside R holds the byte the
\* source held at the same position of R.
C15_RoundTripGobHeight4 ==
    (pc = "t2l" /\ ~tiling.gob_height_is_8) =>
        \A c \in RCoords :
            Load(dst_mem, LinearAddr(linear_dst, c)) = LinearAddr(linear_src, c)

----------------------------------------------------------------------------
(* Properties of the addresses the traversal computes *)

\* The copy_tile calls of the entry point that ran last
TileCalls ==
    copy_tiled_tiles(tiling, level_extent_B, tiled_ptr,
                     LinearPointer_new(IF pc = "t2l" THEN linear_dst
                                       ELSE linear_src,
                                       1, linear_row_stride_B,
                                       linear_plane_stride_B),
                     offset_B, end_B)

\* The CopyGOB calls of one copy_tile call
GobCalls(c) == copy_tile_gobs(tiling, c.tile_ptr, c.linear, c.start, c.end)

\* C16: tile base address.  With the level aligned up to (W', H', D'), the
\* tiled address copy_tiled computes for the tile with index (xt, yt, zt) is
\* base + zt*(W'/tile_w)*(H'/tile_h)*tile_size + yt*(W'/tile_w)*tile_size
\* + xt*tile_size.
C16_TileBaseAddress ==
    pc \in {"l2t", "t2l"} =>
        LET te == Tiling_extent_B(tiling)
            al == AlignedLevel(tiling, level_extent_B)
            tile_size == te.width * te.height * te.depth
            tiles_x == al.width \div te.width
            tiles_y == al.height \div te.height
        IN  \A k \in 1..Len(TileCalls) :
                LET c == TileCalls[k]
                    xt == c.tile.x \div te.width
                    yt == c.tile.y \div te.height
                    zt == c.tile.z \div te.depth
                IN  c.tile_ptr = tiled_ptr + zt * tiles_x * tiles_y * tile_size
                                     + yt * tiles_x * tile_size + xt * tile_size

C16_Witness ==
    /\ pc = "l2t"
    /\ Len(TileCalls) = 4
    /\ \E k \in 1..Len(TileCalls) :
          TileCalls[k].tile.x > 0 /\ TileCalls[k].tile.y > 0
    /\ Len(calls) > 0

\* gob_offset = xg | (yg << x_log2) | (zg << (x_log2 + y_log2))
gob_offset(t, xg, yg, zg) ==
    Or(Or(xg, yg * Pow2(t.x_log2)), zg * Pow2(t.x_log2 + t.y_log2))

\* A copy_tile call over a whole tile
WholeTile(c) ==
    /\ c.start = Offset4D(0, 0, 0, 0)
    /\ c.end = OffsetPlus(Offset4D(0, 0, 0, 0), Tiling_extent_B(tiling))

\* C17: GOB address within a tile.  copy_tile addresses the GOB with
\* coordinate (xg, yg, zg) at tile_base + 512 * gob_offset(xg, yg, zg), and
\* over the GOBs of a whole tile gob_offset takes every value of
\* [0, 2^(x_log2 + y_log2 + z_log2)) exactly once.
C17_GobAddress ==
    pc \in {"l2t", "t2l"} =>
        \A k \in 1..Len(TileCalls) :
            LET c == TileCalls[k]
                gs == GobCalls(c)
                n == Pow2(tiling.x_log2 + tiling.y_log2 + tiling.z_log2)
            IN  /\ \A g \in 1..Len(gs) :
                      gs[g].tiled = c.tile_ptr + 512 *
                          gob_offset(tiling, gs[g].gob.x \div 64,
                                     gs[g].gob.y \div 8, gs[g].gob.z)
                /\ WholeTile(c) =>
                      /\ Len(gs) = n
                      /\ {gs[g].tiled - c.tile_ptr : g \in 1..Len(gs)}
                            = {512 * j : j \in 0..(n - 1)}

C17_Witness ==
    /\ pc = "l2t"
    /\ tiling.x_log2 = 1 /\ tiling.y_log2 = 1
    /\ \E k \in 1..Len(TileCalls) :
          /\ WholeTile(TileCalls[k])
          /\ Len(GobCalls(TileCalls[k])) = 4
          /\ \E g \in 1..4 : GobCalls(TileCalls[k])[g].gob.x > 0
                             /\ GobCalls(TileCalls[k])[g].gob.y > 0
    /\ Len(calls) = 4 * 32

----------------------------------------------------------------------------
(* One call of a sector copy primitive: <C as Copy16B>::copy *)

Copy16BImpls ==
    {"RawCopyToTiled", "RawCopyToLinear", "CopyX24S8ToTiled",
     "CopyZ24X8ToTiled"}

PrimInit ==
    /\ cpc = "init"
    /\ cprim \in Copy16BImpls
    /\ cbytes \in 0..SECTOR_WIDTH_B
    /\ cmem = [tiled |-> Buffer(USIZE \div 4, 3 * SECTOR_WIDTH_B),
               linear |-> Buffer(USIZE \div 2, 2 * SECTOR_WIDTH_B),
               wild |-> FALSE]
    /\ ctiled \in {cmem.tiled.lo, cmem.tiled.lo + 4,
                   cmem.tiled.lo + SECTOR_WIDTH_B}
    /\ clinear \in {cmem.linear.lo, cmem.linear.lo + 3}

\* C::copy(tiled, linear, bytes) with C = cprim
Copy16BCopy ==
    /\ cpc = "init"
    /\ cmem' = Copy16B_copy(cprim, cmem, ctiled, clinear, cbytes)
    /\ cpc' = "done"
    /\ UNCHANGED <<cprim, cbytes, ctiled, clinear>>

InitPrim == CopyIdle /\ GobIdle /\ PartIdle /\ VmIdle /\ PrimInit

NextPrim == Copy16BCopy /\ UNCHANGED <<copyVars, gobVars, partVars, vmVars>>

SpecPrim == InitPrim /\ [][NextPrim]_vars

\* C18: stencil swizzle.  CopyX24S8ToTiled::copy over n tiled bytes, n a
\* multiple of 4, with linear bytes [s0, s1, ...] sets tiled byte 4k+3 to sk
\* for every k with 4k+3 < n and leaves tiled bytes 4k, 4k+1 and 4k+2
\* unchanged.
C18_StencilSwizzle ==
    (cpc = "done" /\ cprim = "CopyX24S8ToTiled" /\ cbytes % 4 = 0) =>
        \A j \in 0..(cbytes - 1) :
            Load(cmem.tiled, ctiled + j) =
                IF j % 4 = 3 THEN clinear + (j \div 4) ELSE ctiled + j

C18_Witness ==
    /\ cpc = "done" /\ cprim = "CopyX24S8ToTiled" /\ cbytes = 16
    /\ \A k \in 0..3 : Load(cmem.tiled, ctiled + 4 * k + 3) = clinear + k
    /\ Load(cmem.tiled, ctiled + 14) = ctiled + 14

----------------------------------------------------------------------------
(* Clipping inside one GOB *)

\* GOB positions y * 64 + x of the bytes the calls of the last CopyGOB method
\* transferred
GobTransferred ==
    {a - glin.lo :
        a \in UNION {gcalls[k].linear..(gcalls[k].linear + gcalls[k].bytes - 1) :
                        k \in 1..Len(gcalls)}}

\* C19: copy_gob clips against [start, end) in both axes: it transfers exactly
\* the bytes at GOB positions (x, y) with start.x <= x < end.x and
\* start.y <= y < end.y, and no byte of a row y < start.y or y >= end.y.
C19_ClipsBothAxes ==
    gpc = "copy_gob" =>
        GobTransferred =
            {y * GOB_EXTENT_B.width + x :
                x \in gstart.x..(gend.x - 1), y \in gstart.y..(gend.y - 1)}

----------------------------------------------------------------------------
(* Rectangles with a zero extent *)

ZeroExtent ==
    extent_B.width = 0 \/ extent_B.height = 0 \/ extent_B.depth = 0

\* C20: a rectangle with zero extent in some dimension copies nothing: the
\* traversal performs no byte transfer, in either direction, also when the
\* start coordinate is not aligned to the GOB or tile size.
C20_ZeroExtentCopiesNothing ==
    (pc \in {"l2t", "t2l"} /\ ZeroExtent) =>
        \A k \in 1..Len(calls) : calls[k].bytes = 0

----------------------------------------------------------------------------
(* The linear cursor along the traversal *)

\* The LinearPointer the entry point that ran last hands to copy_tiled
EntryLinear ==
    LinearPointer_new(IF pc = "t2l" THEN linear_dst ELSE linear_src,
                      1, linear_row_stride_B, linear_plane_stride_B)

\* The linear address copy_gob and copy_whole_gob compute for the 16-byte
\* line e of the table inside the GOB of call g
SectorLinear(g, e) == LinearPointer_at(g.linear, Offset4D(e.x, e.y, 0, 0))

\* copy_tiled's reverse-offset pointer lies below address zero
ReverseWraps ==
    EntryLinear.pointer <
        offset_B.z * linear_plane_stride_B
        + offset_B.y * linear_row_stride_B + offset_B.x

\* The level byte coordinate (x, y, z) lies in R
InR(x, y, z) ==
    /\ offset_B.x <= x /\ x < end_B.x
    /\ offset_B.y <= y /\ y < end_B.y
    /\ offset_B.z <= z /\ z < end_B.z

\* Offsets at which the inverse law of reverse and offset is evaluated
CursorOffsets ==
    {offset_B, end_B,
     Offset4D(level_extent_B.width, level_extent_B.height,
              level_extent_B.depth, 0)}

\* C21: linear cursor.  After copy_tiled reverse-offsets the linear pointer
\* by R.start and applies offset(tile origin), offset(GOB origin) and
\* at((x, y, 0)), the linear address used for the level byte coordinate
\* (X, Y, Z) in R is base + (Z - R.start.z) * plane_stride
\* + (Y - R.start.y) * row_stride + (X - R.start.x) modulo the address width,
\* also when the reverse-offset pointer wraps below zero; and
\* p.reverse(o).offset(o) = p.
C21_LinearCursor ==
    pc \in {"l2t", "t2l"} =>
        /\ \A c \in {TileCalls[k] : k \in 1..Len(TileCalls)} :
              \A g \in {GobCalls(c)[j] : j \in 1..Len(GobCalls(c))} :
                  \A i \in 1..Len(gob2d_for_each_16b) :
                      LET e == gob2d_for_each_16b[i]
                          Y == c.tile.y + g.gob.y + e.y
                          Z == c.tile.z + g.gob.z
                      IN  \A b \in 0..(SECTOR_WIDTH_B - 1) :
                              LET X == c.tile.x + g.gob.x + e.x + b
                              IN  InR(X, Y, Z) =>
                                      SectorLinear(g, e) + b =
                                          LinearAddr(EntryLinear.pointer,
                                                     <<X, Y, Z>>) % USIZE
        /\ \A o \in CursorOffsets, d \in {1, 4} :
              LET p == [EntryLinear EXCEPT !.x_shift = ilog2(d)]
              IN  LinearPointer_offset(LinearPointer_reverse(p, o), o) = p

C21_Witness ==
    /\ pc \in {"l2t", "t2l"}
    /\ ReverseWraps
    /\ Len(TileCalls) > 1
    /\ \E k \in 1..Len(TileCalls) : Len(GobCalls(TileCalls[k])) > 1
    /\ \E k \in 1..Len(calls) :
          calls[k].linear \in
              {LinearAddr(EntryLinear.pointer, c) : c \in RCoords}

----------------------------------------------------------------------------
(* Path selection inside copy_tile *)

\* Level coordinates of the origin of the GOB of call g of copy_tile call c
GobOrigin(c, g) ==
    Offset4D(c.tile.x + g.gob.x, c.tile.y + g.gob.y, c.tile.z + g.gob.z, 0)

\* The GOB of call g lies entirely inside R
GobInside(c, g) ==
    LET o == GobOrigin(c, g)
    IN  /\ offset_B.x <= o.x /\ o.x + GOB_EXTENT_B.width <= end_B.x
        /\ offset_B.y <= o.y /\ o.y + GOB_EXTENT_B.height <= end_B.y
        /\ offset_B.z <= o.z /\ o.z + GOB_EXTENT_B.depth <= end_B.z

\* R holds at least one byte of the GOB of call g
GobTouched(c, g) ==
    LET o == GobOrigin(c, g)
    IN  /\ Max(offset_B.x, o.x) < Min(end_B.x, o.x + GOB_EXTENT_B.width)
        /\ Max(offset_B.y, o.y) < Min(end_B.y, o.y + GOB_EXTENT_B.height)
        /\ Max(offset_B.z, o.z) < Min(end_B.z, o.z + GOB_EXTENT_B.depth)

\* Both edges of R are GOB-aligned on every axis
GobAlignedRect ==
    /\ is_aligned_to(offset_B, GOB_EXTENT_B)
    /\ is_aligned_to(end_B, GOB_EXTENT_B)

\* C22 as stated: path selection.  copy_gob is invoked only for GOBs that R
\* covers partially (R holds some byte of the GOB but not all of them), and
\* every GOB entirely inside R is copied by copy_whole_gob; a GOB-aligned R
\* never takes the clipped path.
C22_PathSelection ==
    pc \in {"l2t", "t2l"} =>
        /\ \A c \in {TileCalls[k] : k \in 1..Len(TileCalls)} :
              \A g \in {GobCalls(c)[j] : j \in 1..Len(GobCalls(c))} :
                  /\ g.fn = "copy_gob" =>
                        GobTouched(c, g) /\ ~GobInside(c, g)
                  /\ GobInside(c, g) => g.fn = "copy_whole_gob"
        /\ GobAlignedRect =>
              \A c \in {TileCalls[k] : k \in 1..Len(TileCalls)} :
                  \A j \in 1..Len(GobCalls(c)) : GobCalls(c)[j].fn # "copy_gob"

\* C22 amended: every GOB entirely inside R is copied by copy_whole_gob and
\* copy_gob is never invoked for such a GOB; a GOB-aligned R never takes
\* the clipped path; and when R has no zero extent, copy_gob is invoked only
\* for GOBs of which R holds some byte but not all.  (For an R with a zero
\* extent, copy_gob is also invoked for GOBs of which R holds no byte.)
C22_PathSelectionNonEmpty ==
    pc \in {"l2t", "t2l"} =>
        /\ \A c \in {TileCalls[k] : k \in 1..Len(TileCalls)} :
              \A g \in {GobCalls(c)[j] : j \in 1..Len(GobCalls(c))} :
                  /\ g.fn = "copy_gob" => ~GobInside(c, g)
                  /\ (g.fn = "copy_gob" /\ ~ZeroExtent) => GobTouched(c, g)
                  /\ GobInside(c, g) => g.fn = "copy_whole_gob"
        /\ GobAlignedRect =>
              \A c \in {TileCalls[k] : k \in 1..Len(TileCalls)} :
                  \A j \in 1..Len(GobCalls(c)) : GobCalls(c)[j].fn # "copy_gob"

C22_Witness ==
    /\ pc \in {"l2t", "t2l"}
    /\ ~ZeroExtent
    /\ ~GobAlignedRect
    /\ \E k \in 1..Len(TileCalls) :
          LET gs == GobCalls(TileCalls[k])
          IN  /\ \E j \in 1..Len(gs) :
                    gs[j].fn = "copy_gob" /\ GobTouched(TileCalls[k], gs[j])
              /\ \E j \in 1..Len(gs) :
                    gs[j].fn = "copy_whole_gob" /\ GobInside(TileCalls[k], gs[j])

----------------------------------------------------------------------------
(* copy_whole_gob against copy_gob over the whole GOB *)

\* Both buffers and the out-of-buffer flag after the calls cs of a CopyGOB
\* method of CopyGOB2D<gdir>, starting from the buffers as they are before
\* the method runs
GobEffect(cs) ==
    Run(gdir, cs, [tiled |-> Buffer(gtil.lo, gtil.size),
                   linear |-> Buffer(glin.lo, glin.size),
                   wild |-> FALSE])

\* The state of both buffers and of the flag
GobState == [tiled |-> gtil, linear |-> glin, wild |-> gwild]

\* start and end of the whole GOB, as CopyGOB::copy_whole_gob passes them
WholeGobStart == Offset4D(0, 0, 0, 0)
WholeGobEnd == OffsetPlus(Offset4D(0, 0, 0, 0), GOB_EXTENT_B)

\* C23: copy_whole_gob(tiled, linear) has the same effect on both buffers as
\* copy_gob(tiled, linear, (0,0,0,0), (64,8,1,1)), for both copy directions.
C23_WholeGobIsFullCopyGob ==
    /\ gpc = "copy_whole_gob" =>
          GobState = GobEffect(CopyGOB2D_copy_gob(gtil.lo, GobLinear,
                                                  WholeGobStart, WholeGobEnd))
    /\ (gpc = "copy_gob" /\ gstart = WholeGobStart /\ gend = WholeGobEnd) =>
          GobState = GobEffect(CopyGOB2D_copy_whole_gob(gtil.lo, GobLinear))

C23_Witness ==
    /\ gpc = "copy_whole_gob"
    /\ gdir = "RawCopyToLinear"
    /\ \A a \in Addresses(glin) : Load(glin, a) # a
    /\ GobState = GobEffect(CopyGOB2D_copy_gob(gtil.lo, GobLinear,
                                               WholeGobStart, WholeGobEnd))

----------------------------------------------------------------------------
(* Debug assertions of the block cursor *)

\* The debug assertions of BlockPointer::new(pointer, bl_extent, extent)
BlockPointer_new_asserts(bl_extent, extent) ==
    /\ bl_extent.array_len = 1
    /\ extent.width % bl_extent.width = 0
    /\ extent.height % bl_extent.height = 0
    /\ extent.depth % bl_extent.depth = 0
    /\ extent.array_len = 1

\* The debug assertions of BlockPointer::at(self, offset)
BlockPointer_at_asserts(self, offset) ==
    /\ offset.x % self.bl_extent.width = 0
    /\ offset.y % self.bl_extent.height = 0
    /\ offset.z % self.bl_extent.depth = 0
    /\ offset.a = 0

\* The extent copy_tiled passes to BlockPointer::new
LevelPointerExtent == Extent4D_align(level_extent_B, Tiling_extent_B(tiling))

\* The BlockPointer copy_tiled builds for the level
LevelPointer ==
    BlockPointer_new(tiled_ptr, Tiling_extent_B(tiling), LevelPointerExtent)

\* The BlockPointer copy_tile builds for the tile of call c
TilePointer(c) ==
    BlockPointer_new(c.tile_ptr, GOB_EXTENT_B, Tiling_extent_B(tiling))

\* C24: cursor preconditions hold on every call the traversal makes.  For
\* every tiling with 8-row GOBs and every R inside the level, each offset
\* passed to BlockPointer::at by copy_tiled (tile origins) and by copy_tile
\* (GOB origins) is a multiple of that pointer's bl_extent in x, y and z, and
\* each extent passed to BlockPointer::new is a multiple of bl_extent, so
\* the debug assertions never fail.
C24_CursorPreconditions ==
    pc \in {"l2t", "t2l"} =>
        /\ BlockPointer_new_asserts(Tiling_extent_B(tiling), LevelPointerExtent)
        /\ \A c \in {TileCalls[k] : k \in 1..Len(TileCalls)} :
              /\ BlockPointer_at_asserts(LevelPointer, c.tile)
              /\ BlockPointer_new_asserts(GOB_EXTENT_B, Tiling_extent_B(tiling))
              /\ \A g \in {GobCalls(c)[j] : j \in 1..Len(GobCalls(c))} :
                    BlockPointer_at_asserts(TilePointer(c), g.gob)

C24_Witness ==
    /\ pc \in {"l2t", "t2l"}
    /\ tiling.gob_height_is_8
    /\ level_extent_B # LevelPointerExtent
    /\ UnalignedRows /\ UnalignedColumns
    /\ Len(TileCalls) > 1
    /\ \E k \in 1..Len(TileCalls) :
          /\ Len(GobCalls(TileCalls[k])) > 1
          /\ TileCalls[k].tile # Offset4D(0, 0, 0, 0)
          /\ BlockPointer_at_asserts(LevelPointer, TileCalls[k].tile)

----------------------------------------------------------------------------
(* The depth primitive *)

\* C25: Z24X8.  CopyZ24X8ToTiled::copy over n bytes copies, for each 4-byte
\* pixel k, linear bytes 4k, 4k+1 and 4k+2 to the same tiled positions,
\* leaves tiled byte 4k+3 unchanged and writes no tiled byte at index >= n,
\* for every n in 0..16, also when n is not a multiple of 4.
C25_DepthSwizzle ==
    (cpc = "done" /\ cprim = "CopyZ24X8ToTiled") =>
        \A a \in Addresses(cmem.tiled) :
            LET j == a - ctiled
            IN  Load(cmem.tiled, a) =
                    IF 0 <= j /\ j < cbytes /\ j % 4 # 3
                    THEN clinear + j
                    ELSE a

====
